---- MODULE Spec2Model ----
(***************************************************************************)
(* Model of the TradingView chart capture tool:                            *)
(*   - TradingViewScraper's clipboard extractor (tview_scraper.py),        *)
(*   - analyze_image_with_llm (market_analyst.py),                         *)
(*   - monitor_loop and trigger_notification (monitor_price.py).           *)
(* Every call to the browser driver can return, raise a WebDriverException *)
(* ("wde") or raise some other exception ("other", a dropped connection    *)
(* for instance); the remote service places its result on the clipboard    *)
(* at a time of its own choosing, or never.                                *)
(***************************************************************************)
EXTENDS Integers, Sequences, FiniteSets, TLC

\* ------------------------------------------------------------------------
\* Bounds of the model
\* ------------------------------------------------------------------------

\* Iterations of a wall-clock bounded clipboard polling loop.
MaxPolls == 2

\* The clock that runs since the last alert stops counting here.
TimeCap == 120

\* Alerts counted.
MaxAlerts == 3

\* Pieces an input string of convert_link_to_image_url is put together from.
MaxPieces == 7

\* close calls made on one scraper object.
MaxCloses == 3

\* Voice tasks alive at one time.
MaxVoice == 2

\* ------------------------------------------------------------------------
\* Program constants
\* ------------------------------------------------------------------------

MAX_CLIPBOARD_ATTEMPTS == 5

\* monitor_loop: the pause after an alert, the pause after an error, the
\* default of the interval parameter; get_current_price: the pause before
\* the title is read. In seconds.
ALERT_DEBOUNCE == 60
ERROR_BACKOFF == 10
interval == 30
PRICE_SETTLE == 1

\* The alternate key-combinations of _try_alternative_shortcuts, in order.
shortcuts == <<"Ctrl+Alt+S", "Ctrl+S", "Alt+Shift+S">>

\* Codes _handle_traditional_method treats as retryable (the list holds each
\* as a number and as a string; the model keeps the decimal text).
retryable_codes == {"40001", "50000", "502", "503"}

\* Outcomes of one call to the browser driver.
DriverOutcomes == {"ok", "wde", "other"}

\* ------------------------------------------------------------------------
\* Clipboard contents
\* ------------------------------------------------------------------------
\* kind: "empty" | "image" | "text" on the clipboard, and "data_url" or
\* "none" for values the program holds.  For text: blank (whitespace only),
\* padded (leading/trailing whitespace), json ("no" | "scalar" | "object"),
\* and for a JSON object its success, code and msg members ("absent" when
\* the key is missing).

Content(kind, blank, padded, json, success, code, msg) ==
    [kind |-> kind, blank |-> blank, padded |-> padded, json |-> json,
     success |-> success, code |-> code, msg |-> msg]

EmptyClip      == Content("empty", FALSE, FALSE, "no", "absent", "absent", "absent")
ImagePayload   == Content("image", FALSE, FALSE, "no", "absent", "absent", "absent")
BlankText      == Content("text", TRUE, TRUE, "no", "absent", "absent", "absent")
ShareLink      == Content("text", FALSE, FALSE, "no", "absent", "absent", "absent")
PaddedLink     == Content("text", FALSE, TRUE, "no", "absent", "absent", "absent")
\* {"success": false, "code": "503", "msg": "Server Error"}
ServerError503 == Content("text", FALSE, FALSE, "object", "false", "503", "Server Error")
\* {"success": false, "code": "404", "msg": "Not Found"}
NotFound404    == Content("text", FALSE, FALSE, "object", "false", "404", "Not Found")

\* {"success": false, "code": 503}
CodeOnly503    == Content("text", FALSE, FALSE, "object", "false", "503", "absent")
\* {"success": false, "msg": "Server Error"}
MsgOnlyServerError ==
    Content("text", FALSE, FALSE, "object", "false", "absent", "Server Error")

\* What the remote service (or anything else writing the OS clipboard) can
\* leave on the clipboard.
ClipContents ==
    {EmptyClip, ImagePayload, BlankText, ShareLink, PaddedLink,
     ServerError503, NotFound404, CodeOnly503, MsgOnlyServerError}

\* Python's None.
None == Content("none", FALSE, FALSE, "no", "absent", "absent", "absent")

\* navigator.clipboard.readText(): the text on the clipboard, "" when the
\* clipboard holds no text (an image, or nothing).
readText(c) == IF c.kind = "text" THEN c ELSE EmptyClip

\* `x and x.strip()`: x is a string with a non-whitespace character.
NonBlank(c) == c.kind = "text" /\ ~c.blank

\* _read_image_from_clipboard followed by _convert_clipboard_to_image_url:
\* the image on the clipboard as a "data:image/png;base64,..." string.
convert_clipboard_to_image_url(c) == [c EXCEPT !.kind = "data_url"]

\* Mutant: the text is returned with its surrounding whitespace.
stripNothing(c) == c

\* str.strip()
strip(c) ==
    IF c.kind # "text" THEN c
    ELSE IF c.blank THEN EmptyClip
    ELSE [c EXCEPT !.padded = FALSE]

\* The server-error test of _handle_traditional_method: json.loads gives a
\* dict holding "code" and "msg" with success False, and the code is in
\* the retryable list or the message contains "Server Error".
IsRetryableServerError(c) ==
    /\ c.kind = "text"
    /\ c.json = "object"
    /\ c.code # "absent"
    /\ c.msg # "absent"
    /\ c.success = "false"
    /\ (c.code \in retryable_codes \/ c.msg = "Server Error")

\* ------------------------------------------------------------------------
\* State
\* ------------------------------------------------------------------------
VARIABLES
    use_save_shortcut,  \* self.config["use_save_shortcut"]
    cpc,                \* position of the capture in progress
    method,             \* "image": get_chart_image_url, "link": get_screenshot_link
    attempt,            \* loop variable of the outer attempt loop
    polls,              \* iterations done by the current polling loop
    altIdx,             \* index into shortcuts in _try_alternative_shortcuts
    clipboard,          \* the OS clipboard
    pending,            \* a capture key was delivered, its result not yet placed
    keySends,           \* primary capture key-combinations sent in this capture
    cleared,            \* the clipboard was cleared since the last primary send
    transient,          \* the last attempt ended on TradingViewClipboardServerError
    extractor,          \* how the extractor ended: [status, value]
    result,             \* what the public capture method gave its caller
    fresh,              \* the clipboard was written by the service since the
                        \* last primary key-combination of this capture
    auth,               \* the _set_auth_cookies_optimized call of this capture
    readiness           \* the _navigate_and_wait call of this capture

captureVars ==
    <<use_save_shortcut, cpc, method, attempt, polls, altIdx, clipboard,
      pending, keySends, cleared, transient, extractor, result, fresh, auth,
      readiness>>

\* market_analyst.py
VARIABLES
    API_KEY,            \* TRUE when LLM_API_KEY is set
    API_PROVIDER,       \* LLM_PROVIDER
    apc,                \* position of the analysis call
    request,            \* the call's image_url and what each backend will answer
    invoked,            \* the backends called during this call, in order
    cooldowns,          \* waits made by this call between backends
    analysis,           \* how the call ended: [status, value]
    failures            \* the texts returned so far by calls whose backend failed

analysisVars ==
    <<API_KEY, API_PROVIDER, apc, request, invoked, cooldowns, analysis, failures>>

\* monitor_price.py
VARIABLES
    min_price,          \* lower end of the target zone
    max_price,          \* upper end of the target zone
    client,             \* TRUE when the OpenAI client was created
    mpc,                \* position of monitor_loop
    price,              \* what get_current_price returned in this iteration
    sinceAlert,         \* seconds since the last alert fired, -1 before the first
    lastGap,            \* sinceAlert when the last alert fired, -1 for the first
    alerts,             \* alerts fired so far
    lastError,          \* the call in which the last exception of the loop body arose
    ended,              \* why monitor_loop is over: "no" while it runs
    waited              \* seconds monitor_loop slept since get_current_price returned

monitorVars ==
    <<min_price, max_price, client, mpc, price, sinceAlert, lastGap, alerts,
      lastError, ended, waited>>

\* convert_link_to_image_url
VARIABLES
    input_string,       \* the argument of the call
    npc,                \* "unused" | "ready" | "returned"
    returned,           \* what the call returned
    rerun               \* the argument is what the call before returned

normalizeVars == <<input_string, npc, returned, rerun>>

\* The scraper object: __enter__, close, __exit__
VARIABLES
    driver,             \* self.driver: "None" or "set"
    spc,                \* "constructed" | "open" | "enter_failed" | "exited"
    closeLog,           \* one record for every close call made on the object
    lastCall            \* the last capture or price call made on the object

sessionVars == <<driver, spc, closeLog, lastCall>>

\* run_analysis_cycle
VARIABLES
    tickers,            \* TICKERS
    cyc,                \* position of run_analysis_cycle
    tk,                 \* index of `ticker` in TICKERS
    tf,                 \* index of `interval` in TIMEFRAMES
    image_url,          \* how the last get_chart_image_url call ended
    extractor_end,      \* how the extractor ended in that call
    images_data,        \* len(images_data)
    issued,             \* the <<t, i>> for which a capture was issued in this cycle
    exhausted,          \* those of them whose capture ended exhausted
    attempted,          \* the tickers whose processing began in this cycle
    critical,           \* an exception reached the outer except clause
    cycleEnd,           \* "no" | "finished" | "critical" | "raised"
    critical_error,     \* the exception the outer except clause logged
    artifacts           \* captures of the current ticker that returned an artifact

cycleVars ==
    <<tickers, cyc, tk, tf, image_url, extractor_end, images_data, issued,
      exhausted, attempted, critical, cycleEnd, critical_error, artifacts>>

\* The threads and processes of the two programs: the thread of
\* monitor_loop, the voice tasks it hands off, the thread of
\* run_analysis_cycle
VARIABLES
    loop,               \* position of the thread that runs monitor_loop
    notification,       \* the last trigger_notification call
    voice,              \* the voice tasks alive, oldest first: their phases
    voice_used,         \* what voice tasks have touched so far
    in_flight,          \* per session, the capture requests not yet returned
    cycle_thread        \* position of the thread that runs run_analysis_cycle

threadsVars == <<loop, notification, voice, voice_used, in_flight, cycle_thread>>

vars ==
    <<captureVars, analysisVars, monitorVars, normalizeVars, sessionVars,
      cycleVars, threadsVars>>

\* What each component leaves alone.
outsideCapture ==
    <<analysisVars, monitorVars, normalizeVars, sessionVars, cycleVars, threadsVars>>
outsideAnalysis ==
    <<captureVars, monitorVars, normalizeVars, sessionVars, cycleVars, threadsVars>>
outsideMonitor ==
    <<captureVars, analysisVars, normalizeVars, sessionVars, cycleVars, threadsVars>>
outsideNormalize ==
    <<captureVars, analysisVars, monitorVars, sessionVars, cycleVars, threadsVars>>
outsideSession ==
    <<captureVars, analysisVars, monitorVars, normalizeVars, cycleVars, threadsVars>>
outsideCycle ==
    <<captureVars, analysisVars, monitorVars, normalizeVars, threadsVars>>
outsideThreads ==
    <<captureVars, analysisVars, normalizeVars, sessionVars, cycleVars,
      min_price, max_price, mpc, price, sinceAlert, lastGap, alerts,
      lastError, ended, waited>>

Outcome(status, value) == [status |-> status, value |-> value]

\* ------------------------------------------------------------------------
\* for attempt in range(self.MAX_CLIPBOARD_ATTEMPTS): another iteration
\* follows the one numbered a.
\* ------------------------------------------------------------------------
\* Mutant: the loop goes round once more than range() allows.
MoreAttemptsOffByOne(a) == a < MAX_CLIPBOARD_ATTEMPTS

MoreAttempts(a) == a < MAX_CLIPBOARD_ATTEMPTS - 1

\* ------------------------------------------------------------------------
\* How the public method hands the extractor's end to its caller.
\* get_chart_image_url returns the value, and None on any exception;
\* get_screenshot_link returns the value and raises TradingViewScraperError
\* on any exception.
\* ------------------------------------------------------------------------
\* Mutant: get_chart_image_url lets the exhaustion error through.
PublicResultExhaustionRaised(m, ext) ==
    IF ext.status = "returned" THEN Outcome("returned", ext.value)
    ELSE IF m = "image" /\ ext.status # "exhausted" THEN Outcome("returned", None)
    ELSE Outcome("raised", None)

PublicResult(m, ext) ==
    IF ext.status = "returned" THEN Outcome("returned", ext.value)
    ELSE IF m = "image" THEN Outcome("returned", None)
    ELSE Outcome("raised", None)

\* The extractor ends with ext: the capture is over.
Finish(ext) ==
    /\ extractor' = ext
    /\ result' = PublicResult(method, ext)
    /\ cpc' = "done"

\* ------------------------------------------------------------------------
\* _set_auth_cookies_optimized
\* ------------------------------------------------------------------------
\* TRADINGVIEW_SESSION_ID and TRADINGVIEW_SESSION_ID_SIGN: set or not.
Credentials == [sessionid : BOOLEAN, sessionid_sign : BOOLEAN]

\* Mutant: the cookies are injected when either value is present.
HasCredentialsEither(c) == c.sessionid \/ c.sessionid_sign

\* if not session_id_value or not session_id_sign_value: return False
HasCredentials(c) == c.sessionid /\ c.sessionid_sign

\* The driver calls of the try block, in program order.
CookieCalls ==
    <<"get chart_url", "add_cookie sessionid", "add_cookie sessionid_sign",
      "refresh">>

\* One call: the credentials it found, the driver calls it made, and how
\* it ended: "True", "False" or "raised".
AuthCall(c, calls, end) == [credentials |-> c, calls |-> calls, ended |-> end]

NoAuth == AuthCall([sessionid |-> FALSE, sessionid_sign |-> FALSE], <<>>, "none")

\* except (WebDriverException, TimeoutException): return False. Any other
\* exception leaves the method.
AuthEnd(o) ==
    CASE o = "ok" -> "True"
      [] o = "wde" -> "False"
      [] o = "other" -> "raised"

\* ------------------------------------------------------------------------
\* _navigate_and_wait
\* ------------------------------------------------------------------------
\* _wait_for_chart_infrastructure: self.wait.until(...) finds an element,
\* raises TimeoutException, or fails as any driver call can.
InfrastructureOutcomes == {"present", "expired", "wde", "other"}

\* _check_chart_rendering_elements and the method-specific wait poll inside
\* try/except Exception until their deadline: they find what they look for
\* or run out of time, and never raise.
PolledWaitOutcomes == {"ready", "expired"}

NavigationCall(get, infra, rendering, settled) ==
    [get |-> get, infrastructure |-> infra, rendering |-> rendering,
     settled |-> settled]

NoReadiness == NavigationCall("none", "skipped", "skipped", "skipped")

\* Mutant: without the inner handler the TimeoutException reaches the outer
\* one.
NavigationEndTimeoutFatal(get, infra) ==
    IF get = "ok" /\ infra = "present" THEN "returns"
    ELSE IF get = "other" \/ (get = "ok" /\ infra = "other") THEN "propagates"
    ELSE "TradingViewScraperError"

\* How the call ends. The inner except TimeoutException turns an expired
\* infrastructure wait into a 0.5 s sleep; the outer except turns a
\* WebDriverException into TradingViewScraperError; anything else leaves.
NavigationEnd(get, infra) ==
    IF get = "ok" /\ infra \in {"present", "expired"} THEN "returns"
    ELSE IF get = "other" \/ (get = "ok" /\ infra = "other") THEN "propagates"
    ELSE "TradingViewScraperError"

CaptureInit ==
    /\ use_save_shortcut \in BOOLEAN
    /\ fresh = FALSE
    /\ auth = NoAuth
    /\ readiness = NoReadiness
    /\ cpc = "idle"
    /\ method = "none"
    /\ attempt = 0
    /\ polls = 0
    /\ altIdx = 1
    /\ clipboard = EmptyClip
    /\ pending = FALSE
    /\ keySends = 0
    /\ cleared = FALSE
    /\ transient = FALSE
    /\ extractor = Outcome("idle", None)
    /\ result = Outcome("none", None)

\* ------------------------------------------------------------------------
\* Capture: get_chart_image_url / get_screenshot_link
\* ------------------------------------------------------------------------

\* A caller issues a capture on the open session. What an earlier capture
\* left on the clipboard is still there.
RequestCapture ==
    /\ cpc \in {"idle", "done"}
    /\ \E m \in {"image", "link"} : method' = m
    /\ cpc' = "auth"
    /\ fresh' = FALSE
    /\ auth' = NoAuth
    /\ readiness' = NoReadiness
    /\ attempt' = 0
    /\ polls' = 0
    /\ altIdx' = 1
    /\ pending' = FALSE
    /\ keySends' = 0
    /\ cleared' = FALSE
    /\ transient' = FALSE
    /\ extractor' = Outcome("idle", None)
    /\ result' = Outcome("none", None)
    /\ UNCHANGED <<use_save_shortcut, clipboard>>
    /\ UNCHANGED outsideCapture

\* _set_auth_cookies_optimized, called first by both public methods. Without
\* both credentials no driver call is made. With them the calls of
\* CookieCalls are made in order; call number n raising ends the sequence.
\* A return of False is only logged by the caller.
SetAuthCookies ==
    /\ cpc = "auth"
    /\ \E c \in Credentials, o \in DriverOutcomes, n \in 1..Len(CookieCalls) :
         /\ o = "ok" => n = Len(CookieCalls)
         /\ auth' = IF HasCredentials(c)
                    THEN AuthCall(c, SubSeq(CookieCalls, 1, n), AuthEnd(o))
                    ELSE AuthCall(c, <<>>, "False")
         /\ IF auth'.ended = "raised"
            THEN /\ cpc' = "done"
                 /\ result' = PublicResult(method, Outcome("not_run", None))
            ELSE /\ cpc' = "navigate"
                 /\ UNCHANGED result
    /\ UNCHANGED <<use_save_shortcut, method, attempt, polls, altIdx, clipboard,
                   pending, keySends, cleared, transient, extractor, readiness>>
    /\ UNCHANGED fresh
    /\ UNCHANGED outsideCapture

\* _navigate_and_wait: driver.get, then the three readiness waits. A call
\* that does not return normally raises TradingViewScraperError or lets
\* another exception through; either way the extractor is not run.
NavigateAndWait ==
    /\ cpc = "navigate"
    /\ \E get \in DriverOutcomes, infra \in InfrastructureOutcomes,
          rendering \in PolledWaitOutcomes, settled \in PolledWaitOutcomes :
         /\ readiness' =
              IF get # "ok" THEN NavigationCall(get, "skipped", "skipped", "skipped")
              ELSE IF infra # "present"
                   THEN NavigationCall(get, infra, "skipped", "skipped")
                   ELSE NavigationCall(get, infra, rendering, settled)
         /\ IF NavigationEnd(get, infra) = "returns"
            THEN /\ cpc' = IF method = "image" THEN "clear" ELSE "ls_send"
                 /\ extractor' = IF method = "link" THEN Outcome("running", None)
                                 ELSE extractor
                 /\ UNCHANGED result
            ELSE /\ cpc' = "done"
                 /\ result' = PublicResult(method, Outcome("not_run", None))
                 /\ UNCHANGED extractor
    /\ UNCHANGED <<use_save_shortcut, method, attempt, polls, altIdx, clipboard,
                   pending, keySends, cleared, transient, auth>>
    /\ UNCHANGED fresh
    /\ UNCHANGED outsideCapture

\* get_chart_image_url: navigator.clipboard.writeText('') before the
\* extractor is called. A WebDriverException is logged and the capture goes
\* on with the clipboard as it was.
ClearClipboard ==
    /\ cpc = "clear"
    /\ \E o \in DriverOutcomes :
         CASE o = "ok" ->
                /\ clipboard' = EmptyClip
                /\ cleared' = TRUE
                /\ cpc' = "cc_send"
                /\ extractor' = Outcome("running", None)
                /\ UNCHANGED result
           [] o = "wde" ->
                /\ cpc' = "cc_send"
                /\ extractor' = Outcome("running", None)
                /\ UNCHANGED <<clipboard, cleared, result>>
           [] o = "other" ->
                /\ cpc' = "done"
                /\ result' = PublicResult(method, Outcome("not_run", None))
                /\ UNCHANGED <<clipboard, cleared, extractor>>
    /\ UNCHANGED <<use_save_shortcut, method, attempt, polls, altIdx, pending,
                   keySends, transient>>
    /\ UNCHANGED <<auth, readiness>>
    /\ fresh' = FALSE
    /\ UNCHANGED outsideCapture

\* The remote service reacts to a delivered key-combination by placing its
\* result on the clipboard.
ServicePlacesResult ==
    /\ pending
    /\ cpc \notin {"idle", "done"}
    /\ \E c \in ClipContents : clipboard' = c
    /\ pending' = FALSE
    /\ fresh' = TRUE
    /\ UNCHANGED <<use_save_shortcut, cpc, method, attempt, polls, altIdx,
                   keySends, cleared, transient, extractor, result>>
    /\ UNCHANGED <<auth, readiness>>
    /\ UNCHANGED outsideCapture

\* _get_clipboard_content, top of the loop body: _send_save_shortcut.
\* A WebDriverException ends the attempt; _send_save_shortcut re-raises
\* anything else and nothing in _get_clipboard_content catches it.
SendSaveShortcut ==
    /\ cpc = "cc_send"
    /\ keySends' = keySends + 1
    /\ cleared' = FALSE
    /\ fresh' = FALSE
    /\ transient' = FALSE
    /\ polls' = 0
    /\ altIdx' = 1
    /\ \E o \in DriverOutcomes :
         CASE o = "ok" ->
                /\ pending' = TRUE
                /\ cpc' = IF use_save_shortcut THEN "ss_read" ELSE "tm_poll"
                /\ UNCHANGED <<extractor, result>>
           [] o = "wde" ->
                /\ cpc' = "cc_retry"
                /\ UNCHANGED <<pending, extractor, result>>
           [] o = "other" ->
                /\ Finish(Outcome("raised", None))
                /\ UNCHANGED pending
    /\ UNCHANGED <<use_save_shortcut, method, attempt, clipboard>>
    /\ UNCHANGED <<auth, readiness>>
    /\ UNCHANGED outsideCapture

\* Mutant: the image read is followed by the text poll whatever it gave.
AfterSaveShortcutReadAlsoPolls(image) == "tm_poll"

\* _get_clipboard_content with use_save_shortcut: `if result: return result`
\* after _handle_save_shortcut_method. An image is returned; None ends the
\* attempt ("will retry"), and _handle_traditional_method is not called.
AfterSaveShortcutRead(image) == IF image THEN "return" ELSE "cc_retry"

\* _handle_save_shortcut_method: _read_image_from_clipboard, and on an image
\* _convert_clipboard_to_image_url. The read gives no image when the
\* clipboard holds none, when the clipboard API is missing, when the script
\* times out, or on a WebDriverException.
HandleSaveShortcutMethod ==
    /\ cpc = "ss_read"
    /\ \E o \in DriverOutcomes, inTime \in BOOLEAN :
         LET image == o = "ok" /\ inTime /\ clipboard.kind = "image"
         IN CASE o = "other" ->
                   Finish(Outcome("raised", None))
              [] o # "other" /\ AfterSaveShortcutRead(image) = "return" ->
                   Finish(Outcome("returned",
                                  convert_clipboard_to_image_url(clipboard)))
              [] OTHER ->
                   /\ cpc' = AfterSaveShortcutRead(image)
                   /\ UNCHANGED <<extractor, result>>
    /\ UNCHANGED <<use_save_shortcut, method, attempt, polls, altIdx, clipboard,
                   pending, keySends, cleared, transient>>
    /\ UNCHANGED <<auth, readiness>>
    /\ UNCHANGED fresh
    /\ UNCHANGED outsideCapture

\* _handle_traditional_method, from "Check if we got valid text content":
\* text is what the polling loop or the final read left in
\* clipboard_content.
ClassifyText(text) ==
    IF NonBlank(text)
    THEN IF IsRetryableServerError(text)
         THEN \* TradingViewClipboardServerError, caught by the attempt loop
              /\ transient' = TRUE
              /\ cpc' = "cc_retry"
              /\ UNCHANGED <<extractor, result>>
         ELSE /\ Finish(Outcome("returned", text))
              /\ UNCHANGED transient
    ELSE /\ cpc' = "tm_alt"
         /\ UNCHANGED <<transient, extractor, result>>

\* _handle_traditional_method: one iteration of the polling loop.
PollTextClipboard ==
    /\ cpc = "tm_poll"
    /\ polls < MaxPolls
    /\ \E o \in DriverOutcomes :
         CASE o = "ok" /\ NonBlank(readText(clipboard)) ->
                /\ ClassifyText(readText(clipboard))
                /\ UNCHANGED polls
           [] o = "other" ->
                /\ Finish(Outcome("raised", None))
                /\ UNCHANGED <<polls, transient>>
           [] OTHER ->
                /\ polls' = polls + 1
                /\ UNCHANGED <<cpc, transient, extractor, result>>
    /\ UNCHANGED <<use_save_shortcut, method, attempt, altIdx, clipboard,
                   pending, keySends, cleared>>
    /\ UNCHANGED <<auth, readiness>>
    /\ UNCHANGED fresh
    /\ UNCHANGED outsideCapture

\* _handle_traditional_method: the polling window is over; the final read.
FinalTextRead ==
    /\ cpc = "tm_poll"
    /\ polls >= 1
    /\ \E o \in DriverOutcomes :
         CASE o = "ok" -> ClassifyText(readText(clipboard))
           [] o = "wde" -> ClassifyText(None)
           [] o = "other" ->
                /\ Finish(Outcome("raised", None))
                /\ UNCHANGED transient
    /\ UNCHANGED <<use_save_shortcut, method, attempt, polls, altIdx, clipboard,
                   pending, keySends, cleared>>
    /\ UNCHANGED <<auth, readiness>>
    /\ UNCHANGED fresh
    /\ UNCHANGED outsideCapture

\* _try_alternative_shortcuts: the shortcut numbered altIdx. The first one
\* that is sent ends the function with True; a WebDriverException moves on
\* to the next, and after the last the function returns False.
TryAlternativeShortcut ==
    /\ cpc = "tm_alt"
    /\ altIdx \in 1..Len(shortcuts)
    /\ \E o \in DriverOutcomes :
         CASE o = "ok" ->
                /\ pending' = TRUE
                /\ cpc' = "tm_altread"
                /\ UNCHANGED <<altIdx, extractor, result>>
           [] o = "wde" ->
                /\ IF altIdx < Len(shortcuts)
                   THEN altIdx' = altIdx + 1 /\ UNCHANGED cpc
                   ELSE cpc' = "cc_retry" /\ UNCHANGED altIdx
                /\ UNCHANGED <<pending, extractor, result>>
           [] o = "other" ->
                /\ Finish(Outcome("raised", None))
                /\ UNCHANGED <<altIdx, pending>>
    /\ UNCHANGED <<use_save_shortcut, method, attempt, polls, clipboard,
                   keySends, cleared, transient>>
    /\ UNCHANGED <<auth, readiness>>
    /\ UNCHANGED fresh
    /\ UNCHANGED outsideCapture

\* _handle_traditional_method: the read after an alternative shortcut.
\* Non-blank text is returned as it is.
ReadAfterAlternative ==
    /\ cpc = "tm_altread"
    /\ \E o \in DriverOutcomes :
         CASE o = "ok" /\ NonBlank(readText(clipboard)) ->
                Finish(Outcome("returned", readText(clipboard)))
           [] o = "other" ->
                Finish(Outcome("raised", None))
           [] OTHER ->
                /\ cpc' = "cc_retry"
                /\ UNCHANGED <<extractor, result>>
    /\ UNCHANGED <<use_save_shortcut, method, attempt, polls, altIdx, clipboard,
                   pending, keySends, cleared, transient>>
    /\ UNCHANGED <<auth, readiness>>
    /\ UNCHANGED fresh
    /\ UNCHANGED outsideCapture

\* _get_clipboard_content, bottom of the loop body: wait and go round again,
\* or leave the loop and raise "Failed to get clipboard content after
\* multiple attempts".
RetryOrExhaust ==
    /\ cpc = "cc_retry"
    /\ IF MoreAttempts(attempt)
       THEN /\ attempt' = attempt + 1
            /\ cpc' = "cc_send"
            /\ UNCHANGED <<extractor, result>>
       ELSE /\ Finish(Outcome("exhausted", None))
            /\ UNCHANGED attempt
    /\ UNCHANGED <<use_save_shortcut, method, polls, altIdx, clipboard, pending,
                   keySends, cleared, transient>>
    /\ UNCHANGED <<auth, readiness>>
    /\ UNCHANGED fresh
    /\ UNCHANGED outsideCapture

\* _trigger_screenshot_and_get_link, top of the loop body: Alt+S.
\* A WebDriverException breaks out of the loop and the function returns
\* None.
SendScreenshotShortcut ==
    /\ cpc = "ls_send"
    /\ keySends' = keySends + 1
    /\ cleared' = FALSE
    /\ fresh' = FALSE
    /\ polls' = 0
    /\ \E o \in DriverOutcomes :
         CASE o = "ok" ->
                /\ pending' = TRUE
                /\ cpc' = "ls_poll"
                /\ UNCHANGED <<extractor, result>>
           [] o = "wde" ->
                /\ Finish(Outcome("returned", None))
                /\ UNCHANGED pending
           [] o = "other" ->
                /\ Finish(Outcome("raised", None))
                /\ UNCHANGED pending
    /\ UNCHANGED <<use_save_shortcut, method, attempt, altIdx, clipboard,
                   transient>>
    /\ UNCHANGED <<auth, readiness>>
    /\ UNCHANGED outsideCapture

\* _trigger_screenshot_and_get_link: one iteration of the polling loop.
\* Non-blank text ends the capture: it is returned stripped.
PollLinkClipboard ==
    /\ cpc = "ls_poll"
    /\ polls < MaxPolls
    /\ \E o \in DriverOutcomes :
         CASE o = "ok" /\ NonBlank(readText(clipboard)) ->
                /\ Finish(Outcome("returned", strip(readText(clipboard))))
                /\ UNCHANGED polls
           [] o = "other" ->
                /\ Finish(Outcome("raised", None))
                /\ UNCHANGED polls
           [] OTHER ->
                /\ polls' = polls + 1
                /\ UNCHANGED <<cpc, extractor, result>>
    /\ UNCHANGED <<use_save_shortcut, method, attempt, altIdx, clipboard,
                   pending, keySends, cleared, transient>>
    /\ UNCHANGED <<auth, readiness>>
    /\ UNCHANGED fresh
    /\ UNCHANGED outsideCapture

\* _trigger_screenshot_and_get_link: the final read after the polling
\* window.
FinalLinkRead ==
    /\ cpc = "ls_poll"
    /\ polls >= 1
    /\ \E o \in DriverOutcomes :
         CASE o = "ok" /\ NonBlank(readText(clipboard)) ->
                Finish(Outcome("returned", strip(readText(clipboard))))
           [] o = "other" ->
                Finish(Outcome("raised", None))
           [] OTHER ->
                /\ cpc' = "ls_retry"
                /\ UNCHANGED <<extractor, result>>
    /\ UNCHANGED <<use_save_shortcut, method, attempt, polls, altIdx, clipboard,
                   pending, keySends, cleared, transient>>
    /\ UNCHANGED <<auth, readiness>>
    /\ UNCHANGED fresh
    /\ UNCHANGED outsideCapture

\* _trigger_screenshot_and_get_link, bottom of the loop body: wait and go
\* round again, or leave the loop and return None.
LinkRetryOrGiveUp ==
    /\ cpc = "ls_retry"
    /\ IF MoreAttempts(attempt)
       THEN /\ attempt' = attempt + 1
            /\ cpc' = "ls_send"
            /\ UNCHANGED <<extractor, result>>
       ELSE /\ Finish(Outcome("returned", None))
            /\ UNCHANGED attempt
    /\ UNCHANGED <<use_save_shortcut, method, polls, altIdx, clipboard, pending,
                   keySends, cleared, transient>>
    /\ UNCHANGED <<auth, readiness>>
    /\ UNCHANGED fresh
    /\ UNCHANGED outsideCapture

CaptureNext ==
    \/ RequestCapture
    \/ SetAuthCookies
    \/ NavigateAndWait
    \/ ClearClipboard
    \/ ServicePlacesResult
    \/ SendSaveShortcut
    \/ HandleSaveShortcutMethod
    \/ PollTextClipboard
    \/ FinalTextRead
    \/ TryAlternativeShortcut
    \/ ReadAfterAlternative
    \/ RetryOrExhaust
    \/ SendScreenshotShortcut
    \/ PollLinkClipboard
    \/ FinalLinkRead
    \/ LinkRetryOrGiveUp

\* ------------------------------------------------------------------------
\* Analysis: analyze_image_with_llm
\* ------------------------------------------------------------------------

\* Values of LLM_PROVIDER.
Providers == {"gemini", "Gemini", "openai", "claude"}

\* str.lower()
lower(p) == IF p = "Gemini" THEN "gemini" ELSE p

\* The two backends the function knows, and the branch taken for a provider.
BackendNames == {"gemini", "openai"}
BackendFor(p) == IF lower(p) = "gemini" THEN "gemini" ELSE "openai"

\* What a backend call can do: answer with text, raise a quota / rate-limit
\* error, or raise any other error.
BackendOutcomes ==
    {[kind |-> "ok", msg |-> "ok"],
     [kind |-> "quota", msg |-> "429 quota exceeded"],
     [kind |-> "error", msg |-> "500 internal error"]}

\* image_url: a base64 data URI, an https URL, a string that starts with
\* "data:image" but has no comma, or None.
ImageUrls == {"data_url", "url", "malformed", "none"}

\* A Python string, as the sequence of the parts it is formatted from.
Text(parts) == [kind |-> "text", parts |-> parts]
NoText == [kind |-> "none", parts |-> <<>>]

NoRequest ==
    [image |-> "none", behaviour |-> [b \in BackendNames |-> [kind |-> "ok", msg |-> "ok"]]]

Raised(msg) == [raised |-> TRUE, msg |-> msg, invoked |-> <<>>]

\* The backend call itself: a request whose URL the backend cannot use is
\* refused, otherwise the backend behaves as the environment decides.
CallBackend(b, req) ==
    LET ans == IF req.image \in {"malformed", "none"}
               THEN [kind |-> "error", msg |-> "400 invalid image"]
               ELSE req.behaviour[b]
    IN [raised |-> ans.kind # "ok", msg |-> ans.msg, invoked |-> <<b>>]

\* The body of the try statement. The Gemini branch first turns image_url
\* into an image (splitting a data URI, or downloading the URL, which can
\* fail) and then calls the model; the OpenAI branch sends the URL as it is.
TryBody(provider, req, fetchOk) ==
    IF BackendFor(provider) = "gemini"
    THEN CASE req.image = "none" ->
                Raised("'NoneType' object has no attribute 'startswith'")
           [] req.image = "malformed" ->
                Raised("not enough values to unpack")
           [] req.image = "url" /\ ~fetchOk ->
                Raised("connection error")
           [] OTHER ->
                CallBackend("gemini", req)
    ELSE CallBackend("openai", req)

\* Mutant: the handler catches ValueError only.
ExceptHandlerNarrow(msg) ==
    IF msg = "not enough values to unpack"
    THEN [status |-> "returned", value |-> Text(<<"Error during analysis: ", msg>>)]
    ELSE [status |-> "raised", value |-> NoText]

\* Mutant: the handler returns the bare error message.
ExceptHandlerBare(msg) ==
    [status |-> "returned", value |-> Text(<<msg>>)]

\* except Exception as e: return f"Error during analysis: {e}"
ExceptHandler(msg) ==
    [status |-> "returned", value |-> Text(<<"Error during analysis: ", msg>>)]

AnalysisInit ==
    /\ API_KEY = FALSE
    /\ API_PROVIDER = "openai"
    /\ apc = "unloaded"
    /\ request = NoRequest
    /\ invoked = <<>>
    /\ cooldowns = 0
    /\ analysis = [status |-> "none", value |-> NoText]
    /\ failures = {}

\* Import of market_analyst: load_dotenv, API_KEY and API_PROVIDER are read
\* from the environment (LLM_PROVIDER defaults to "openai").
LoadConfiguration ==
    /\ apc = "unloaded"
    /\ API_KEY' \in BOOLEAN
    /\ API_PROVIDER' \in Providers
    /\ apc' = "idle"
    /\ UNCHANGED <<request, invoked, cooldowns, analysis, failures>>
    /\ UNCHANGED outsideAnalysis

\* A caller (run_analysis_cycle) calls analyze_image_with_llm with an image;
\* the environment fixes what each backend would answer to it.
SubmitArtifact ==
    /\ apc \in {"idle", "done"}
    /\ \E img \in ImageUrls, beh \in [BackendNames -> BackendOutcomes] :
         request' = [image |-> img, behaviour |-> beh]
    /\ apc' = "called"
    /\ invoked' = <<>>
    /\ cooldowns' = 0
    /\ analysis' = [status |-> "none", value |-> NoText]
    /\ UNCHANGED <<API_KEY, API_PROVIDER, failures>>
    /\ UNCHANGED outsideAnalysis

\* analyze_image_with_llm, the whole call. The function sleeps nowhere.
analyze_image_with_llm ==
    /\ apc = "called"
    /\ apc' = "done"
    /\ IF ~API_KEY
       THEN /\ analysis' = [status |-> "returned",
                            value |-> Text(<<"Analysis skipped (No API Key)">>)]
            /\ UNCHANGED <<invoked, failures>>
       ELSE \E fetchOk \in BOOLEAN :
              LET body == TryBody(API_PROVIDER, request, fetchOk) IN
              /\ invoked' = body.invoked
              /\ IF body.raised
                 THEN /\ analysis' = ExceptHandler(body.msg)
                      /\ failures' = failures \cup {ExceptHandler(body.msg).value}
                 ELSE /\ analysis' = [status |-> "returned",
                                      value |-> Text(<<body.msg>>)]
                      /\ UNCHANGED failures
    /\ UNCHANGED <<API_KEY, API_PROVIDER, request, cooldowns>>
    /\ UNCHANGED outsideAnalysis

AnalysisNext ==
    \/ LoadConfiguration
    \/ SubmitArtifact
    \/ analyze_image_with_llm

\* ------------------------------------------------------------------------
\* Price monitor: monitor_loop, trigger_notification
\* ------------------------------------------------------------------------

\* Target zones given on the command line.
Zones == {<<0, 10>>, <<90000, 91000>>}

\* What get_current_price can return: a float parsed from the page title,
\* or None.
NoPrice == [known |-> FALSE, value |-> 0]
Known(v) == [known |-> TRUE, value |-> v]
PriceReadings ==
    {NoPrice} \cup {Known(v) : v \in {0, 10, 11, 89999, 90000, 90500, 91000, 91001}}

\* time.sleep(d) seen from the clock that runs since the last alert.
Elapse(t, d) ==
    IF t < 0 THEN t
    ELSE IF t + d > TimeCap THEN TimeCap ELSE t + d

\* Mutant: the test on the price is left out.
TruthyAlways(p) == TRUE

\* `if price:` a float other than 0.0
Truthy(p) == p.known /\ p.value # 0

\* min_price <= price <= max_price
InZone(p) == min_price <= p.value /\ p.value <= max_price

\* Mutant: the pause after an alert is left out.
NoDebounce(t) == t

\* time.sleep(60) after trigger_notification
AfterDebounce(t) == Elapse(t, ALERT_DEBOUNCE)

\* Mutant: the handler of Exception leaves the loop.
ExceptExceptionBreaks == [mpc |-> "stopped", ended |-> "Exception"]

\* except Exception as e: the error is logged, time.sleep(10) follows and
\* the while loop goes on.
ExceptException == [mpc |-> "backoff", ended |-> "no"]

MonitorInit ==
    /\ min_price = 0
    /\ max_price = 0
    /\ client = FALSE
    /\ mpc = "unstarted"
    /\ price = NoPrice
    /\ sinceAlert = -1
    /\ lastGap = -1
    /\ alerts = 0
    /\ lastError = "none"
    /\ ended = "no"
    /\ waited = 0

\* Import of monitor_price (the OpenAI client exists when a key is set and
\* the constructor did not raise) and the call of monitor_loop.
StartMonitor ==
    /\ mpc = "unstarted"
    /\ \E z \in Zones : min_price' = z[1] /\ max_price' = z[2]
    /\ client' \in BOOLEAN
    /\ mpc' = "fetch"
    /\ UNCHANGED <<price, sinceAlert, lastGap, alerts, lastError, ended>>
    /\ UNCHANGED waited
    /\ UNCHANGED outsideMonitor

\* price = scraper.get_current_price(ticker), then the tests on it.
\* get_current_price sleeps 1 s before it reads the title; a failure before
\* that (early) or after it (late: the title read, float()) is caught inside
\* get_current_price, which then returns None.
FetchPrice ==
    /\ mpc = "fetch"
    /\ \E r \in PriceReadings, early \in BOOLEAN, late \in BOOLEAN :
         /\ (early \/ late) => ~r.known
         /\ ~(early /\ late)
         /\ price' = r
         /\ sinceAlert' = IF early THEN sinceAlert ELSE Elapse(sinceAlert, PRICE_SETTLE)
         /\ mpc' = IF Truthy(r) /\ InZone(r) THEN "notify" ELSE "sleep"
         /\ lastError' = IF early \/ late THEN "get_current_price" ELSE lastError
    /\ UNCHANGED <<min_price, max_price, client, lastGap, alerts, ended>>
    /\ waited' = 0
    /\ UNCHANGED outsideMonitor

\* trigger_notification(price, ticker, "Inside Entry Zone!"): the voice
\* hand-off (Thread.start, or Popen of `say` without a client) is not
\* guarded and can raise; the visual notification is guarded.
\* When it returns the alert has fired.
TriggerNotification ==
    /\ mpc = "notify"
    /\ \E voiceOk \in BOOLEAN :
         IF voiceOk
         THEN /\ lastGap' = sinceAlert
              /\ sinceAlert' = 0
              /\ alerts' = IF alerts < MaxAlerts THEN alerts + 1 ELSE alerts
              /\ mpc' = "debounce"
              /\ UNCHANGED <<lastError, ended>>
         ELSE /\ mpc' = ExceptException.mpc
              /\ ended' = ExceptException.ended
              /\ lastError' = "trigger_notification"
              /\ UNCHANGED <<sinceAlert, lastGap, alerts>>
    /\ UNCHANGED <<min_price, max_price, client, price>>
    /\ UNCHANGED waited
    /\ UNCHANGED outsideMonitor

\* time.sleep(60) after the alert.
DebounceSleep ==
    /\ mpc = "debounce"
    /\ sinceAlert' = AfterDebounce(sinceAlert)
    /\ mpc' = "sleep"
    /\ UNCHANGED <<min_price, max_price, client, price, lastGap, alerts,
                   lastError, ended>>
    /\ waited' = waited + ALERT_DEBOUNCE
    /\ UNCHANGED outsideMonitor

\* time.sleep(interval) at the end of the iteration.
IntervalSleep ==
    /\ mpc = "sleep"
    /\ sinceAlert' = Elapse(sinceAlert, interval)
    /\ mpc' = "fetch"
    /\ UNCHANGED <<min_price, max_price, client, price, lastGap, alerts,
                   lastError, ended>>
    /\ waited' = waited + interval
    /\ UNCHANGED outsideMonitor

\* except Exception: time.sleep(10)
ErrorBackoff ==
    /\ mpc = "backoff"
    /\ sinceAlert' = Elapse(sinceAlert, ERROR_BACKOFF)
    /\ mpc' = "fetch"
    /\ UNCHANGED <<min_price, max_price, client, price, lastGap, alerts,
                   lastError, ended>>
    /\ waited' = waited + ERROR_BACKOFF
    /\ UNCHANGED outsideMonitor

\* except KeyboardInterrupt: break (raised in the error handler's sleep it
\* leaves monitor_loop as an exception; the loop is over either way).
KeyboardInterrupt ==
    /\ mpc \in {"fetch", "notify", "debounce", "sleep", "backoff"}
    /\ mpc' = "stopped"
    /\ ended' = "KeyboardInterrupt"
    /\ UNCHANGED <<min_price, max_price, client, price, sinceAlert, lastGap,
                   alerts, lastError>>
    /\ UNCHANGED waited
    /\ UNCHANGED outsideMonitor

MonitorNext ==
    \/ StartMonitor
    \/ FetchPrice
    \/ TriggerNotification
    \/ DebounceSleep
    \/ IntervalSleep
    \/ ErrorBackoff
    \/ KeyboardInterrupt

\* ------------------------------------------------------------------------
\* Link normalization: convert_link_to_image_url
\* ------------------------------------------------------------------------
\* A string is the sequence of the tokens it is written with. "https" is a
\* token of its own because it is alphanumeric: written right after an id it
\* belongs to the id.

\* Optional[str]
NoString == [isNone |-> TRUE, chars |-> <<>>]
Str(s) == [isNone |-> FALSE, chars |-> s]

\* What follows "https" in a share link: (?:www\.|in\.)?tradingview\.com/x/
LinkHosts ==
    {"://www.tradingview.com/x/", "://in.tradingview.com/x/", "://tradingview.com/x/"}

\* [a-zA-Z0-9]
Alnum == {"https", "a", "B", "b", "h"}

\* The pieces input strings are written with: a share link up to its id,
\* id characters, the slash and a blank.
SharePrefix == <<"https", "://www.tradingview.com/x/">>
Pieces == {SharePrefix, <<"a">>, <<"B">>, <<"/">>, <<" ">>}

RECURSIVE Join(_)
Join(ps) == IF ps = <<>> THEN <<>> ELSE Head(ps) \o Join(Tail(ps))

\* The arguments of the call: None and the strings of up to max pieces.
InputStrings(max) ==
    {NoString} \cup
    {Str(Join(ps)) : ps \in UNION {[1..n -> Pieces] : n \in 0..max}}

\* Number of alphanumeric tokens of s from position i on: ([a-zA-Z0-9]+)
RECURSIVE IdRun(_, _)
IdRun(s, i) ==
    IF i <= Len(s) /\ s[i] \in Alnum THEN 1 + IdRun(s, i + 1) ELSE 0

\* Length of the match of pattern that starts at position i of s, 0 when
\* there is none.
pattern(s, i) ==
    IF i + 2 <= Len(s) /\ s[i] = "https" /\ s[i + 1] \in LinkHosts
          /\ IdRun(s, i + 2) >= 1
    THEN LET n == IdRun(s, i + 2)
             slash == IF i + 2 + n <= Len(s) /\ s[i + 2 + n] = "/" THEN 1 ELSE 0
         IN 2 + n + slash
    ELSE 0

\* re.finditer(pattern, s) from position i on: the matches from left to
\* right, not overlapping, each with group(0) and group(1).
RECURSIVE finditer(_, _)
finditer(s, i) ==
    IF i > Len(s) THEN <<>>
    ELSE IF pattern(s, i) > 0
         THEN <<[matched_url |-> SubSeq(s, i, i + pattern(s, i) - 1),
                 match_id |-> SubSeq(s, i + 2, i + 1 + IdRun(s, i + 2))]>>
              \o finditer(s, i + pattern(s, i))
         ELSE finditer(s, i + 1)

\* re.search(pattern, s)
search(s) == \E i \in 1..Len(s) : pattern(s, i) > 0

\* sub occurs in s at position i.
OccursAt(s, sub, i) ==
    i + Len(sub) - 1 <= Len(s) /\ SubSeq(s, i, i + Len(sub) - 1) = sub

\* sub in s
Contains(s, sub) == \E i \in 1..Len(s) : OccursAt(s, sub, i)

\* s.replace(old, new) from position i on: every occurrence, left to right.
RECURSIVE replace(_, _, _, _)
replace(s, old, new, i) ==
    IF i > Len(s) THEN <<>>
    ELSE IF OccursAt(s, old, i)
         THEN new \o replace(s, old, new, i + Len(old))
         ELSE <<s[i]>> \o replace(s, old, new, i + 1)

\* match_id[0].lower(): the first character of the id, in lower case.
first_lower(t) ==
    CASE t = "https" -> "h"
      [] t = "B" -> "b"
      [] OTHER -> t

\* f"https://s3.tradingview.com/snapshots/{match_id[0].lower()}/{match_id}.png"
new_link(match_id) ==
    <<"https", "://s3.tradingview.com/snapshots/", first_lower(match_id[1]), "/">>
        \o match_id \o <<".png">>

\* for match in re.finditer(pattern, input_string): the match is replaced
\* everywhere in output_string when output_string still holds it.
RECURSIVE for_match(_, _)
for_match(output_string, matches) ==
    IF matches = <<>> THEN output_string
    ELSE LET m == Head(matches)
         IN IF Contains(output_string, m.matched_url)
            THEN for_match(replace(output_string, m.matched_url,
                                   new_link(m.match_id), 1),
                           Tail(matches))
            ELSE for_match(output_string, Tail(matches))

\* The other specifications do not call the function.
NormalizeUnused ==
    /\ input_string = NoString
    /\ npc = "unused"
    /\ returned = NoString
    /\ rerun = FALSE

NormalizeInit ==
    /\ input_string \in InputStrings(MaxPieces)
    /\ npc = "ready"
    /\ returned = NoString
    /\ rerun = FALSE

\* convert_link_to_image_url(input_string), the whole call.
convert_link_to_image_url ==
    /\ npc = "ready"
    /\ returned' =
          IF input_string.isNone \/ input_string.chars = <<>>
          THEN NoString
          ELSE Str(for_match(input_string.chars, finditer(input_string.chars, 1)))
    /\ npc' = "returned"
    /\ UNCHANGED <<input_string, rerun>>
    /\ UNCHANGED outsideNormalize

\* The caller runs the function again on what it returned.
ConvertAgain ==
    /\ npc = "returned"
    /\ ~rerun
    /\ input_string' = returned
    /\ rerun' = TRUE
    /\ npc' = "ready"
    /\ UNCHANGED returned
    /\ UNCHANGED outsideNormalize

NormalizeNext ==
    \/ convert_link_to_image_url
    \/ ConvertAgain

\* ------------------------------------------------------------------------
\* The scraper object: _setup_driver, close, the context manager
\* ------------------------------------------------------------------------

\* What _setup_driver can do: return, fail to start Chrome (self.driver is
\* not assigned), or fail in set_script_timeout / implicitly_wait after
\* self.driver was assigned. Both failures raise.
SetupOutcomes == {"ok", "start_failed", "timeout_failed"}

\* What self.driver.quit() can do: return or raise.
QuitOutcomes ==
    {"ok", "WebDriverException", "NoSuchWindowException", "ConnectionError",
     "OSError", "KeyboardInterrupt", "AttributeError"}

\* Mutant: close without its last except clause.
except_clause_no_catch_all(q) ==
    CASE q \in {"WebDriverException", "NoSuchWindowException"} -> "webdriver"
      [] q \in {"ConnectionError", "OSError", "KeyboardInterrupt"} -> "connection"
      [] OTHER -> "uncaught"

\* The except clause of close that catches q.
except_clause(q) ==
    CASE q \in {"WebDriverException", "NoSuchWindowException"} -> "webdriver"
      [] q \in {"ConnectionError", "OSError", "KeyboardInterrupt"} -> "connection"
      [] OTHER -> "exception"

\* close() on an object whose self.driver is d and whose quit() would do q:
\* the new self.driver, whether quit was called, and how close ended.
\* Only the first except clause leaves self.driver as it is.
close_call(d, q) ==
    IF d = "None"
    THEN [driver |-> "None", quit |-> "not called", ended |-> "returned"]
    ELSE IF q = "ok"
    THEN [driver |-> "None", quit |-> q, ended |-> "returned"]
    ELSE CASE except_clause(q) = "webdriver" ->
                [driver |-> d, quit |-> q, ended |-> "returned"]
           [] except_clause(q) \in {"connection", "exception"} ->
                [driver |-> "None", quit |-> q, ended |-> "returned"]
           [] OTHER ->
                [driver |-> d, quit |-> q, ended |-> "raised"]

\* self.driver after _setup_driver.
driver_after_setup(o) == IF o = "start_failed" THEN "None" ELSE "set"

\* The public operations of the scraper object.
Operations == {"get_chart_image_url", "get_screenshot_link", "get_current_price"}

\* The top of a public operation, before its try statement: `if not
\* self.driver: raise TradingViewScraperError(...)`, then, in the two
\* capture methods, `if not ticker or not interval: raise ValueError(...)`.
\* "proceeds": the method goes on to its browser calls.
entry_guard(op, d, empty) ==
    IF d = "None" THEN "TradingViewScraperError"
    ELSE IF op # "get_current_price" /\ empty THEN "ValueError"
    ELSE "proceeds"

\* One call: the operation, whether its ticker or interval was empty,
\* whether the session was open (entered and no close call made since), and
\* how the top of the method ended.
Call(op, empty, open, end) ==
    [op |-> op, empty |-> empty, open |-> open, ended |-> end]

NoCall == Call("none", FALSE, FALSE, "none")

SessionInit ==
    /\ driver = "None"
    /\ spc = "constructed"
    /\ closeLog = <<>>
    /\ lastCall = NoCall

\* __enter__: _setup_driver. When it raises, the with statement does not
\* call __exit__.
Enter ==
    /\ spc = "constructed"
    /\ \E o \in SetupOutcomes :
         /\ driver' = driver_after_setup(o)
         /\ spc' = IF o = "ok" THEN "open" ELSE "enter_failed"
    /\ UNCHANGED closeLog
    /\ UNCHANGED lastCall
    /\ UNCHANGED outsideSession

\* An explicit close() by the owner of the object, at any time.
close ==
    /\ Len(closeLog) < MaxCloses
    /\ \E q \in QuitOutcomes :
         LET c == close_call(driver, q) IN
         /\ driver' = c.driver
         /\ closeLog' = Append(closeLog, [via |-> "close", quit |-> c.quit,
                                          ended |-> c.ended])
    /\ UNCHANGED spc
    /\ UNCHANGED lastCall
    /\ UNCHANGED outsideSession

\* __exit__: the end of the with block calls close().
Exit ==
    /\ spc = "open"
    /\ Len(closeLog) < MaxCloses
    /\ \E q \in QuitOutcomes :
         LET c == close_call(driver, q) IN
         /\ driver' = c.driver
         /\ closeLog' = Append(closeLog, [via |-> "__exit__", quit |-> c.quit,
                                          ended |-> c.ended])
    /\ spc' = "exited"
    /\ UNCHANGED lastCall
    /\ UNCHANGED outsideSession

\* The owner of the object calls one of its operations, at any time.
CallOperation ==
    /\ \E op \in Operations, empty \in BOOLEAN :
         lastCall' = Call(op, empty, spc = "open" /\ closeLog = <<>>,
                          entry_guard(op, driver, empty))
    /\ UNCHANGED <<driver, spc, closeLog>>
    /\ UNCHANGED outsideSession

SessionNext ==
    \/ Enter
    \/ close
    \/ Exit
    \/ CallOperation

\* ------------------------------------------------------------------------
\* The analysis cycle: run_analysis_cycle
\* ------------------------------------------------------------------------

TIMEFRAMES == <<"5", "15", "60", "240", "D">>

\* TICKERS: the list of the module, which holds one ticker as shipped and
\* any number when edited.
TickerLists == {<<"BYBIT:BTCUSDT.P">>, <<"BYBIT:BTCUSDT.P", "BYBIT:ETHUSDT.P">>}

\* How the extractor can end inside get_chart_image_url (the cycle builds
\* the scraper with use_save_shortcut=True): with the image as a data URL,
\* exhausted, with another exception, or not run at all because cookies or
\* navigation raised.
ExtractorEnds ==
    {Outcome("returned", convert_clipboard_to_image_url(ImagePayload)),
     Outcome("exhausted", None),
     Outcome("raised", None),
     Outcome("not_run", None)}

\* _setup_driver: what __enter__ raises. Starting Chrome and setting the
\* script timeout are in one try statement whose handler turns a
\* WebDriverException into TradingViewScraperError("WebDriver initialization
\* failed").
setup_raises(o) == IF o = "ok" THEN "none" ELSE "TradingViewScraperError"

\* Mutant: the outer handler lets the exception leave run_analysis_cycle.
outer_except_reraises(e) == "raised"

\* run_analysis_cycle: `except Exception as e:` around the with statement
\* logs "Critical error in analysis cycle" and the function returns.
outer_except(e) == "critical"

\* The items of a cycle.
Items(ts) == (1..Len(ts)) \X (1..Len(TIMEFRAMES))

CycleInit ==
    /\ tickers = <<"BYBIT:BTCUSDT.P">>
    /\ cyc = "idle"
    /\ tk = 1
    /\ tf = 1
    /\ image_url = Outcome("none", None)
    /\ extractor_end = Outcome("idle", None)
    /\ images_data = 0
    /\ issued = {}
    /\ exhausted = {}
    /\ attempted = {}
    /\ critical = FALSE
    /\ cycleEnd = "no"
    /\ critical_error = "none"
    /\ artifacts = 0

\* run_analysis_cycle is called (once, or by the hourly loop after the
\* cycle before): a new scraper object is built.
StartCycle ==
    /\ cyc \in {"idle", "done"}
    /\ cycleEnd # "raised"
    /\ critical_error' = "none"
    /\ tickers' \in TickerLists
    /\ cyc' = "enter"
    /\ tk' = 1
    /\ tf' = 1
    /\ image_url' = Outcome("none", None)
    /\ extractor_end' = Outcome("idle", None)
    /\ images_data' = 0
    /\ issued' = {}
    /\ exhausted' = {}
    /\ attempted' = {}
    /\ critical' = FALSE
    /\ cycleEnd' = "no"
    /\ driver' = "None"
    /\ spc' = "constructed"
    /\ closeLog' = <<>>
    /\ artifacts' = 0
    /\ UNCHANGED lastCall
    /\ UNCHANGED outsideCycle

\* with TradingViewScraper(...) as scraper: __enter__. An exception of
\* _setup_driver goes to the outer except clause; __exit__ is not called.
OpenSession ==
    /\ cyc = "enter"
    /\ \E o \in SetupOutcomes :
         /\ driver' = driver_after_setup(o)
         /\ IF o = "ok"
            THEN /\ spc' = "open"
                 /\ cyc' = "ticker"
                 /\ UNCHANGED <<critical, cycleEnd>>
            ELSE /\ spc' = "enter_failed"
                 /\ cyc' = "done"
                 /\ critical' = TRUE
                 /\ cycleEnd' = outer_except(setup_raises(o))
         /\ critical_error' = setup_raises(o)
    /\ UNCHANGED <<tickers, tk, tf, image_url, extractor_end, images_data, issued,
                   exhausted, attempted, closeLog>>
    /\ UNCHANGED artifacts
    /\ UNCHANGED lastCall
    /\ UNCHANGED outsideCycle

\* for ticker in TICKERS: the top of the body, down to the timeframe loop.
\* os.makedirs(img_dir, exist_ok=True) is in no try statement but the outer
\* one.
BeginTicker ==
    /\ cyc = "ticker"
    /\ attempted' = attempted \cup {tk}
    /\ images_data' = 0
    /\ tf' = 1
    /\ \E makedirsOk \in BOOLEAN :
         IF makedirsOk
         THEN cyc' = "capture" /\ UNCHANGED <<critical, critical_error>>
         ELSE cyc' = "exit" /\ critical' = TRUE /\ critical_error' = "OSError"
    /\ UNCHANGED <<tickers, tk, image_url, extractor_end, issued, exhausted,
                   cycleEnd>>
    /\ UNCHANGED sessionVars
    /\ artifacts' = 0
    /\ UNCHANGED outsideCycle

\* The end of one pass of the timeframe loop.
NextInterval ==
    IF tf < Len(TIMEFRAMES)
    THEN cyc' = "capture" /\ tf' = tf + 1
    ELSE cyc' = "collected" /\ UNCHANGED tf

\* image_url = scraper.get_chart_image_url(ticker, interval) and the test
\* `if image_url:`. An exception of the call is caught by the except
\* clause of the timeframe loop.
FetchChart ==
    /\ cyc = "capture"
    /\ issued' = issued \cup {<<tk, tf>>}
    /\ \E ext \in ExtractorEnds :
         /\ extractor_end' = ext
         /\ image_url' = PublicResult("image", ext)
         /\ exhausted' = IF ext.status = "exhausted"
                         THEN exhausted \cup {<<tk, tf>>} ELSE exhausted
         /\ IF PublicResult("image", ext).status = "returned"
                 /\ PublicResult("image", ext).value # None
            THEN cyc' = "save" /\ UNCHANGED tf
            ELSE NextInterval
    /\ UNCHANGED <<tickers, tk, images_data, attempted, critical, cycleEnd,
                   critical_error>>
    /\ UNCHANGED sessionVars
    /\ artifacts' = IF image_url'.status = "returned" /\ image_url'.value # None
                    THEN artifacts + 1 ELSE artifacts
    /\ UNCHANGED outsideCycle

\* The image is decoded and its file name is formatted from `timestamp`, a
\* name bound nowhere in the module: NameError, caught by the except clause
\* of the timeframe loop. Nothing is appended to images_data.
SaveImage ==
    /\ cyc = "save"
    /\ NextInterval
    /\ UNCHANGED <<tickers, tk, image_url, extractor_end, images_data, issued,
                   exhausted, attempted, critical, cycleEnd, critical_error>>
    /\ UNCHANGED sessionVars
    /\ UNCHANGED artifacts
    /\ UNCHANGED outsideCycle

\* `if not images_data: ... continue`: on to the next ticker, or out of the
\* with block after the last one. (The code after the test, from the grid
\* image to the brief, needs a non-empty images_data.)
SkipTicker ==
    /\ cyc = "collected"
    /\ images_data = 0
    /\ IF tk < Len(tickers)
       THEN cyc' = "ticker" /\ tk' = tk + 1
       ELSE cyc' = "exit" /\ UNCHANGED tk
    /\ UNCHANGED <<tickers, tf, image_url, extractor_end, images_data, issued,
                   exhausted, attempted, critical, cycleEnd, critical_error>>
    /\ UNCHANGED sessionVars
    /\ UNCHANGED artifacts
    /\ UNCHANGED outsideCycle

\* The with block is left, normally or by an exception: __exit__ calls
\* close(), then the function returns or its outer except clause logs.
LeaveSession ==
    /\ cyc = "exit"
    /\ \E q \in QuitOutcomes :
         LET c == close_call(driver, q) IN
         /\ driver' = c.driver
         /\ closeLog' = Append(closeLog, [via |-> "__exit__", quit |-> c.quit,
                                          ended |-> c.ended])
         /\ critical' = (critical \/ c.ended = "raised")
         /\ critical_error' = IF c.ended = "raised" THEN q ELSE critical_error
         /\ cycleEnd' = IF critical \/ c.ended = "raised"
                        THEN outer_except(critical_error') ELSE "finished"
    /\ spc' = "exited"
    /\ cyc' = "done"
    /\ UNCHANGED <<tickers, tk, tf, image_url, extractor_end, images_data, issued,
                   exhausted, attempted>>
    /\ UNCHANGED artifacts
    /\ UNCHANGED lastCall
    /\ UNCHANGED outsideCycle

CycleNext ==
    \/ StartCycle
    \/ OpenSession
    \/ BeginTicker
    \/ FetchChart
    \/ SaveImage
    \/ SkipTicker
    \/ LeaveSession

\* ------------------------------------------------------------------------
\* Threads: monitor_loop, the voice tasks, run_analysis_cycle
\* ------------------------------------------------------------------------
\* monitor_price.py and market_analyst.py are two programs. Each builds its
\* own TradingViewScraper in a with statement and calls it from its main
\* thread. trigger_notification hands the voice to a thread running
\* play_ai_voice (with an OpenAI client) or to a `say` process (without).

\* The scraper objects: the one of run_analysis_cycle, the one of
\* monitor_loop.
Sessions == {"run_analysis_cycle", "monitor_loop"}

\* Phases of a voice task. A play_ai_voice thread: "create"
\* (client.audio.speech.create), "write" (response.stream_to_file), "play"
\* (subprocess.run of afplay), "fallback" (about to Popen `say`). A `say`
\* process, started by trigger_notification or by the fallback: "say".
VoicePhases == {"create", "write", "play", "fallback", "say"}

\* Mutant: play_ai_voice reads the price from the scraper before it speaks.
VoiceResourcesWithSession(phase) ==
    CASE phase = "create" -> {"openai", "session"}
      [] phase = "write" -> {"/tmp/margin_call_alert.mp3"}
      [] phase = "play" -> {"/tmp/margin_call_alert.mp3", "afplay"}
      [] phase = "fallback" -> {}
      [] phase = "say" -> {"say"}

\* What a voice task touches in each phase.
VoiceResources(phase) ==
    CASE phase = "create" -> {"openai"}
      [] phase = "write" -> {"/tmp/margin_call_alert.mp3"}
      [] phase = "play" -> {"/tmp/margin_call_alert.mp3", "afplay"}
      [] phase = "fallback" -> {}
      [] phase = "say" -> {"say"}

\* Mutant: trigger_notification joins the voice tasks before it goes on.
HandOffJoins(tasks) == tasks = <<>>

\* threading.Thread(...).start() and subprocess.Popen(...) return once the
\* thread or process is started, whatever the tasks alive are doing.
HandOffReturns(tasks) == TRUE

\* The phase a play_ai_voice thread or `say` process moves to: "ended" when
\* it is over. Every call of the try block of play_ai_voice that raises
\* leads to the fallback; afplay returning is the end of the thread; a
\* Popen of `say` that raises is the end of the thread too.
NextVoicePhase(phase, ok) ==
    CASE phase = "create" -> IF ok THEN "write" ELSE "fallback"
      [] phase = "write" -> IF ok THEN "play" ELSE "fallback"
      [] phase = "play" -> IF ok THEN "ended" ELSE "fallback"
      [] phase = "fallback" -> IF ok THEN "say" ELSE "ended"
      [] phase = "say" -> "ended"

\* The sequence without its element k.
Remove(seq, k) == SubSeq(seq, 1, k - 1) \o SubSeq(seq, k + 1, Len(seq))

Notification(end, handoff, visual) ==
    [ended |-> end, handoff |-> handoff, visual |-> visual]

ThreadsInit ==
    /\ loop = "unstarted"
    /\ notification = Notification("none", "none", "none")
    /\ voice = <<>>
    /\ voice_used = {}
    /\ in_flight = [s \in Sessions |-> 0]
    /\ cycle_thread = "between"

\* monitor_price is run: the client exists or not, monitor_loop opens its
\* scraper.
LaunchMonitor ==
    /\ loop = "unstarted"
    /\ client' \in BOOLEAN
    /\ loop' = "poll"
    /\ UNCHANGED <<notification, voice, voice_used, in_flight, cycle_thread>>
    /\ UNCHANGED outsideThreads

\* monitor_loop: scraper.get_current_price(ticker) is called.
IssuePriceRequest ==
    /\ loop = "poll"
    /\ in_flight' = [in_flight EXCEPT !["monitor_loop"] = @ + 1]
    /\ loop' = "price"
    /\ UNCHANGED <<client, notification, voice, voice_used, cycle_thread>>
    /\ UNCHANGED outsideThreads

\* get_current_price is over: the price is in the zone (not while MaxVoice
\* voice tasks are alive), or it is not or is None, or the call raised.
PriceRequestReturns ==
    /\ loop = "price"
    /\ in_flight' = [in_flight EXCEPT !["monitor_loop"] = @ - 1]
    /\ \E r \in {"in zone", "no alert", "raised"} :
         CASE r = "in zone" ->
                /\ Len(voice) < MaxVoice
                /\ loop' = "handoff"
                /\ notification' = Notification("running", "none", "none")
           [] r = "no alert" ->
                /\ loop' = "sleep"
                /\ UNCHANGED notification
           [] r = "raised" ->
                /\ loop' = "backoff"
                /\ UNCHANGED notification
    /\ UNCHANGED <<client, voice, voice_used, cycle_thread>>
    /\ UNCHANGED outsideThreads

\* trigger_notification, the audio alert: Thread(...).start() with a
\* client, Popen of `say` without. Neither is in a try statement: when it
\* raises, trigger_notification is left and the except clause of
\* monitor_loop takes over.
VoiceHandOff ==
    /\ loop = "handoff"
    /\ \E ok \in BOOLEAN :
         IF ok
         THEN LET phase == IF client THEN "create" ELSE "say" IN
              /\ voice' = Append(voice, phase)
              /\ voice_used' = voice_used \cup VoiceResources(phase)
              /\ notification' = [notification EXCEPT !.handoff = "started"]
              /\ loop' = "visual"
         ELSE /\ notification' = Notification("raised", "raised", "none")
              /\ loop' = "backoff"
              /\ UNCHANGED <<voice, voice_used>>
    /\ UNCHANGED <<client, in_flight, cycle_thread>>
    /\ UNCHANGED outsideThreads

\* trigger_notification, the visual alert: subprocess.run of osascript
\* inside try/except Exception: pass, then the return.
VisualNotification ==
    /\ loop = "visual"
    /\ HandOffReturns(voice)
    /\ \E ok \in BOOLEAN :
         notification' = [notification EXCEPT
                             !.ended = "returned",
                             !.visual = IF ok THEN "shown" ELSE "failed"]
    /\ loop' = "debounce"
    /\ UNCHANGED <<client, voice, voice_used, in_flight, cycle_thread>>
    /\ UNCHANGED outsideThreads

\* monitor_loop: time.sleep(60) after the alert, time.sleep(interval) at the
\* end of the iteration, time.sleep(10) in the except clause.
LoopSleeps ==
    /\ loop \in {"debounce", "sleep", "backoff"}
    /\ loop' = IF loop = "debounce" THEN "sleep" ELSE "poll"
    /\ UNCHANGED <<client, notification, voice, voice_used, in_flight,
                   cycle_thread>>
    /\ UNCHANGED outsideThreads

\* One step of the monitor_loop thread.
LoopStep ==
    \/ IssuePriceRequest
    \/ PriceRequestReturns
    \/ VoiceHandOff
    \/ VisualNotification
    \/ LoopSleeps

\* A voice task takes its next step, or ends.
VoiceStep ==
    /\ \E k \in 1..Len(voice), ok \in BOOLEAN :
         LET next == NextVoicePhase(voice[k], ok) IN
         IF next = "ended"
         THEN voice' = Remove(voice, k) /\ UNCHANGED voice_used
         ELSE /\ voice' = [voice EXCEPT ![k] = next]
              /\ voice_used' = voice_used \cup VoiceResources(next)
    /\ UNCHANGED <<client, loop, notification, in_flight, cycle_thread>>
    /\ UNCHANGED outsideThreads

\* run_analysis_cycle: scraper.get_chart_image_url(ticker, interval) is
\* called in the timeframe loop.
IssueCapture ==
    /\ cycle_thread = "between"
    /\ in_flight' = [in_flight EXCEPT !["run_analysis_cycle"] = @ + 1]
    /\ cycle_thread' = "capturing"
    /\ UNCHANGED <<client, loop, notification, voice, voice_used>>
    /\ UNCHANGED outsideThreads

\* get_chart_image_url is over, with a value or an exception.
CaptureReturns ==
    /\ cycle_thread = "capturing"
    /\ in_flight' = [in_flight EXCEPT !["run_analysis_cycle"] = @ - 1]
    /\ cycle_thread' = "between"
    /\ UNCHANGED <<client, loop, notification, voice, voice_used>>
    /\ UNCHANGED outsideThreads

ThreadsNext ==
    \/ LaunchMonitor
    \/ IssuePriceRequest
    \/ PriceRequestReturns
    \/ VoiceHandOff
    \/ VisualNotification
    \/ LoopSleeps
    \/ VoiceStep
    \/ IssueCapture
    \/ CaptureReturns

Init ==
    /\ CaptureInit /\ AnalysisInit /\ MonitorInit /\ NormalizeUnused
    /\ SessionInit /\ CycleInit /\ ThreadsInit

InitNormalize ==
    /\ CaptureInit /\ AnalysisInit /\ MonitorInit /\ NormalizeInit
    /\ SessionInit /\ CycleInit /\ ThreadsInit

Spec == Init /\ [][CaptureNext]_vars

SpecAnalysis == Init /\ [][AnalysisNext]_vars

SpecMonitor == Init /\ [][MonitorNext]_vars

SpecNormalize == InitNormalize /\ [][NormalizeNext]_vars

SpecSession == Init /\ [][SessionNext]_vars

SpecCycle == Init /\ [][CycleNext]_vars

SpecThreads == Init /\ [][ThreadsNext]_vars

\* ------------------------------------------------------------------------
\* Properties of the extractor
\* ------------------------------------------------------------------------

\* What the extractor may return as an artifact: an image data URL or text
\* with a non-whitespace character.
IsArtifact(v) == v.kind = "data_url" \/ NonBlank(v)

ExtractorEnded == extractor.status \in {"returned", "exhausted", "raised"}

\* C1: in every capture, on the image path and on the share-link path alike,
\* the primary capture key-combination is sent at most 5 times.
C1_AtMostFiveKeySends == keySends <= 5

\* C1 witness: a capture that ended after sending the key-combination 5 times.
C1_FiveSendsThenEnd == cpc = "done" /\ keySends = 5 /\ ExtractorEnded

\* C2 as claimed: an extractor run ends either with a non-empty artifact
\* returned or with the capture-exhausted error raised, nothing else.
C2_ArtifactOrExhausted ==
    ExtractorEnded =>
        \/ extractor.status = "exhausted"
        \/ extractor.status = "returned" /\ IsArtifact(extractor.value)

\* C3 as claimed: text that the extractor's own test classifies as a
\* retryable server error is never the value a capture returns.
C3_NoServerErrorReturned ==
    result.status = "returned" => ~IsRetryableServerError(result.value)

\* C4 as claimed: a detected transient server error with attempts left does
\* not end the capture, and the primary key-combination that follows it is
\* sent on a clipboard cleared since the previous send.
C4_TransientRetriesWholeAttempt ==
    /\ [][(transient' /\ ~transient /\ MoreAttempts(attempt)) => cpc' = "cc_retry"]_vars
    /\ [][(transient /\ keySends' = keySends + 1) => cleared]_vars

\* C5 as claimed: every send of the primary key-combination, the first one
\* of a capture included, happens on a clipboard that was cleared since the
\* previous send.
C5_ClearedBeforeEachSend ==
    [][keySends' = keySends + 1 => cleared]_vars

\* ------------------------------------------------------------------------
\* Properties of the analysis call
\* ------------------------------------------------------------------------

\* The backends in priority order: the configured one, then the other.
PriorityOrder ==
    LET first == BackendFor(API_PROVIDER)
    IN <<first, CHOOSE b \in BackendNames : b # first>>

\* Index of the first backend of PriorityOrder that answers the request, 0
\* when none does.
FirstSuccess ==
    IF request.behaviour[PriorityOrder[1]].kind = "ok" THEN 1
    ELSE IF request.behaviour[PriorityOrder[2]].kind = "ok" THEN 2
    ELSE 0

\* The call used its key and sent a well-formed image.
CleanCall == apc = "done" /\ API_KEY /\ request.image = "data_url"

\* C6: a finished analysis call has returned a text value; it has not
\* raised, whatever the key, the image URL and the backend did.
C6_AnalyzeReturnsText ==
    apc = "done" => analysis.status = "returned" /\ analysis.value.kind = "text"

\* C6 witness: a call whose backend raised has finished.
C6_BackendRaisedAndReturned ==
    /\ apc = "done"
    /\ API_KEY
    /\ Len(invoked) = 1
    /\ request.image = "data_url"
    /\ request.behaviour[invoked[1]].kind = "error"

C8_FallbackInPriorityOrder ==
    (CleanCall /\ FirstSuccess > 0) =>
        /\ invoked = SubSeq(PriorityOrder, 1, FirstSuccess)
        /\ analysis.value = Text(<<request.behaviour[PriorityOrder[FirstSuccess]].msg>>)

\* C9 as claimed: the call waits once for every quota failure it met, and
\* for nothing else.
C9_OneCooldownPerQuotaFailure ==
    CleanCall =>
        cooldowns = Cardinality({i \in 1..Len(invoked) :
                                    request.behaviour[invoked[i]].kind = "quota"})

\* ------------------------------------------------------------------------
\* Properties of the price monitor
\* ------------------------------------------------------------------------

\* C10: an alert that is not the first one fires at least 60 s after the
\* alert before it.
C10_AlertsSixtySecondsApart == lastGap = -1 \/ lastGap >= 60

\* C10 witness: with the price read in the zone, a second alert has fired,
\* one debounce pause, one interval and one price read after the first.
C10_SecondAlertInZone ==
    /\ mpc = "debounce"
    /\ alerts = 2
    /\ Truthy(price) /\ InZone(price)
    /\ lastGap = ALERT_DEBOUNCE + interval + PRICE_SETTLE

C12_AlertIffInZone ==
    [][(mpc = "fetch" /\ price'.known /\ ended' # "KeyboardInterrupt")
       => ((mpc' = "notify") <=> InZone(price'))]_vars

\* ------------------------------------------------------------------------
\* Properties of the link normalization
\* ------------------------------------------------------------------------

\* The first call of the function on an input has returned.
FirstCallReturned == npc = "returned" /\ ~rerun

\* C13 as claimed: the function run on what it returned returns the same
\* again.
C13_Idempotent ==
    (npc = "returned" /\ rerun) => returned = input_string

\* C14 as claimed: no part of the string the function returns for an input
\* matches the share-link pattern.
C14_NoShareLinkLeft ==
    FirstCallReturned => (returned.isNone \/ ~search(returned.chars))

\* Every match of the pattern replaced where it stands by the link built
\* from its own id.
RECURSIVE EachReplacedByOwn(_, _)
EachReplacedByOwn(s, i) ==
    IF i > Len(s) THEN <<>>
    ELSE IF pattern(s, i) > 0
         THEN new_link(SubSeq(s, i + 2, i + 1 + IdRun(s, i + 2)))
              \o EachReplacedByOwn(s, i + pattern(s, i))
         ELSE <<s[i]>> \o EachReplacedByOwn(s, i + 1)

\* C15 as claimed: in the returned string every share link of the input
\* stands replaced by the asset URL of its own id.
C15_EachLinkByItsOwnId ==
    (FirstCallReturned /\ ~input_string.isNone /\ input_string.chars # <<>>)
        => returned = Str(EachReplacedByOwn(input_string.chars, 1))

\* C16 as claimed: an input without a share link is returned unchanged.
C16_NoLinkNoChange ==
    (FirstCallReturned /\ ~input_string.isNone /\ ~search(input_string.chars))
        => returned = input_string

\* ------------------------------------------------------------------------
\* Properties of the analysis cycle
\* ------------------------------------------------------------------------

\* C17: a capture that ended exhausted is handed to the cycle as the
\* returned value None, the cycle goes on with the next timeframe (after
\* the last one with the next ticker) without reaching its outer except
\* clause, and a cycle that finished has issued the capture of every
\* timeframe of every ticker.
C17_ExhaustionStaysInItsCapture ==
    /\ [](extractor_end.status = "exhausted"
            => image_url = Outcome("returned", None))
    /\ [][(cyc = "capture" /\ extractor_end'.status = "exhausted"
              /\ issued' # issued)
          => /\ critical' = critical
             /\ \/ (tf < Len(TIMEFRAMES) /\ cyc' = "capture" /\ tf' = tf + 1)
                \/ (tf = Len(TIMEFRAMES) /\ cyc' = "collected")]_vars
    /\ [][(cyc = "collected" /\ tk < Len(tickers) /\ cyc' # "collected")
          => (cyc' = "ticker" /\ tk' = tk + 1)]_vars
    /\ [](cycleEnd = "finished" => issued = Items(tickers))

\* C17 witness: a cycle over two tickers has finished with every capture
\* issued, the first capture of the first ticker having ended exhausted.
C17_FinishedAfterExhaustion ==
    /\ cycleEnd = "finished"
    /\ Len(tickers) = 2
    /\ <<1, 1>> \in exhausted
    /\ issued = Items(tickers)

\* C18 as claimed: when a cycle whose session opened is over, the
\* processing of every ticker of the list has begun.
C18_EveryTickerAttempted ==
    (cyc = "done" /\ spc = "exited") => attempted = 1..Len(tickers)

\* ------------------------------------------------------------------------
\* Properties of close
\* ------------------------------------------------------------------------

\* The close calls made so far in which quit() was called.
QuitCalls == {k \in 1..Len(closeLog) : closeLog[k].quit # "not called"}

\* C19 as claimed: over all the close calls made on one object, quit() is
\* called at most once.
C19_QuitAtMostOnce == Cardinality(QuitCalls) <= 1

\* C20: every close call returned, whatever quit() did and whether the
\* driver was set or not.
C20_CloseAlwaysReturns ==
    \A k \in 1..Len(closeLog) : closeLog[k].ended = "returned"

\* C20 witness: three close calls on an opened session: quit() raised
\* WebDriverException in the first, another exception in the second, and
\* the third found the driver already released.
C20_ClosedThreeTimes ==
    /\ spc \in {"open", "exited"}
    /\ Len(closeLog) = 3
    /\ closeLog[1].quit = "WebDriverException"
    /\ closeLog[2].quit = "AttributeError"
    /\ closeLog[3].quit = "not called"

\* ------------------------------------------------------------------------
\* Properties of authentication and navigation
\* ------------------------------------------------------------------------

\* C21 as claimed: whenever _set_auth_cookies_optimized ends without having
\* applied the cookies (a credential absent, or the injection failed), the
\* same capture goes on to navigate.
C21_AuthFailureNotFatal ==
    [][(cpc = "auth" /\ auth'.ended # "True") => cpc' = "navigate"]_vars

\* The driver calls of a successful authentication.
OneGetTwoCookiesOneReload ==
    <<"get chart_url", "add_cookie sessionid", "add_cookie sessionid_sign",
      "refresh">>

\* C22: with a credential absent no driver call is made (no cookie, no
\* reload); cookies are injected only with both present; the calls made are
\* always a prefix of: one navigation to the target, the two cookies, one
\* reload; and a successful authentication made exactly these four calls.
C22_CookiesOnlyWithBothCredentials ==
    /\ (~auth.credentials.sessionid \/ ~auth.credentials.sessionid_sign)
           => auth.calls = <<>>
    /\ auth.calls = SubSeq(OneGetTwoCookiesOneReload, 1, Len(auth.calls))
    /\ auth.ended = "True" => auth.calls = OneGetTwoCookiesOneReload

\* C22 witness: an authentication succeeded and the capture went on.
C22_Authenticated ==
    auth.ended = "True" /\ Len(auth.calls) = 4 /\ cpc = "navigate"

\* C24: after a successful driver.get, whether the structural wait found its
\* element or expired, and whatever the rendering and settle waits gave,
\* _navigate_and_wait returns and the capture takes its next step (the
\* clipboard clear of get_chart_image_url, the extractor of
\* get_screenshot_link).
C24_ReadinessExpiryNotFatal ==
    [][(/\ cpc = "navigate"
        /\ readiness'.get = "ok"
        /\ readiness'.infrastructure \in {"present", "expired"})
         => (cpc' = IF method = "image" THEN "clear" ELSE "ls_send")]_vars

\* C24 witness: the extractor runs after a structural wait that expired.
C24_ExtractorAfterExpiredWait ==
    /\ readiness.get = "ok"
    /\ readiness.infrastructure = "expired"
    /\ extractor.status = "running"

\* ------------------------------------------------------------------------
\* Properties of what a capture returns
\* ------------------------------------------------------------------------

\* Text that is neither blank nor JSON: in this model, a share link
\* "https://www.tradingview.com/x/<id>/", which convert_link_to_image_url
\* rewrites.
IsShareLinkText(v) == v.kind = "text" /\ ~v.blank /\ v.json = "no"

C29_ImageReturnedAtOnce ==
    /\ [][(/\ cpc = "ss_read"
           /\ clipboard.kind = "image"
           /\ cpc' \notin {"ss_read", "cc_retry"}
           /\ extractor'.status # "raised")
            => /\ cpc' = "done"
               /\ result' = Outcome("returned",
                                    convert_clipboard_to_image_url(clipboard))
               /\ polls' = polls]_vars
    /\ [][(cpc = "done" /\ cpc' = "done") => keySends' = keySends]_vars

\* C29 witness: a capture that returned the image found by its first read.
C29_ImageFromFirstRead ==
    /\ use_save_shortcut
    /\ cpc = "done"
    /\ result.status = "returned"
    /\ result.value.kind = "data_url"
    /\ keySends = 1
    /\ polls = 0

\* C30 as claimed: in save-shortcut mode, an image read that found no image
\* is followed, in the same attempt, by the text poll.
C30_TextPolledAfterEmptyImageRead ==
    [][(cpc = "ss_read" /\ extractor'.status = "running") => cpc' = "tm_poll"]_vars

\* ------------------------------------------------------------------------
\* Properties of a cycle whose session cannot be opened
\* ------------------------------------------------------------------------

C25_NotificationNeverRaises ==
    /\ notification.ended # "raised"
    /\ notification.handoff = "raised" => notification.visual # "none"

\* C26: whatever the voice tasks alive are doing, the monitor_loop thread
\* can take its next step: the visual notification after the hand-off, the
\* sleeps, the next poll. No step of the loop waits for a voice task.
C26_LoopNeverWaitsForVoice ==
    loop # "unstarted" => ENABLED LoopStep

\* C26 witness: the visual notification was issued and the next price
\* request is in flight while the play_ai_voice thread started by the
\* alert is still in its first call.
C26_PolledWhileVoiceRuns ==
    /\ loop = "price"
    /\ notification.ended = "returned"
    /\ notification.visual = "shown"
    /\ voice = <<"create">>

\* C27: on each session at most one capture request is in flight, and the
\* voice tasks touch neither a session nor the clipboard.
C27_OneCaptureInFlightPerSession ==
    /\ \A s \in Sessions : in_flight[s] <= 1
    /\ voice_used \cap {"session", "clipboard"} = {}

\* C27 witness: both sessions have a request in flight while a voice task
\* plays the file it wrote.
C27_AllThreadsBusy ==
    /\ in_flight["run_analysis_cycle"] = 1
    /\ in_flight["monitor_loop"] = 1
    /\ \E k \in 1..Len(voice) : voice[k] = "play"

\* ------------------------------------------------------------------------
\* Properties of the text path
\* ------------------------------------------------------------------------

\* C31 as claimed: the outer attempt is given up after the re-read that
\* follows an alternate key-combination only when that was the last of the
\* three.
C31_AllAlternativesTried ==
    [][(cpc = "tm_altread" /\ cpc' = "cc_retry") => altIdx = Len(shortcuts)]_vars

\* The transient-error test as the claim states it: a JSON object with
\* success false and a retryable code or the marker in its message, the
\* other field present or not.
ClaimedTransient(c) ==
    /\ c.kind = "text"
    /\ c.json = "object"
    /\ c.success = "false"
    /\ (c.code \in retryable_codes \/ c.msg = "Server Error")

\* C32 as claimed: the classification of _handle_traditional_method raises
\* the transient error exactly for the texts of ClaimedTransient and returns
\* every other non-empty text.
C32_TransientExactlyAsClaimed ==
    /\ [][(cpc = "tm_poll" /\ transient' /\ ~transient)
            => ClaimedTransient(clipboard)]_vars
    /\ [][(cpc = "tm_poll" /\ extractor'.status = "returned")
            => ~ClaimedTransient(extractor'.value)]_vars

\* C35 as claimed: what the extractor returns, and what it classifies as a
\* transient error, was written to the clipboard after the last primary
\* key-combination of the capture was sent.
C35_NoStaleRead ==
    /\ [][(/\ extractor.status = "running"
           /\ extractor'.status = "returned"
           /\ extractor'.value # None) => fresh]_vars
    /\ [][(transient' /\ ~transient) => fresh]_vars

\* ------------------------------------------------------------------------
\* Properties of the waits of monitor_loop
\* ------------------------------------------------------------------------

\* C33: an iteration whose get_current_price returned None goes to the
\* interval sleep without calling trigger_notification, and when the next
\* get_current_price call is made the loop has slept the interval (30 s)
\* and nothing else.
C33_UnknownPriceWaitsBaseInterval ==
    /\ [][(mpc = "fetch" /\ mpc' # "stopped" /\ ~price'.known)
            => (mpc' = "sleep" /\ alerts' = alerts)]_vars
    /\ [][(mpc # "fetch" /\ mpc' = "fetch" /\ mpc # "unstarted" /\ ~price.known)
            => (waited' = interval /\ alerts' = alerts)]_vars

\* C33 witness: the poll after an iteration that could not read the price,
\* with a target zone that holds the number 0.
C33_PolledAgainAfterUnknown ==
    /\ mpc = "fetch"
    /\ ~price.known
    /\ waited = interval
    /\ min_price = 0

\* C36 as claimed: when the loop comes back to get_current_price after an
\* iteration that read a price in the zone and called trigger_notification,
\* it has slept at least the debounce window.
C36_DebounceAfterEveryDetection ==
    [][(/\ mpc # "fetch" /\ mpc' = "fetch" /\ mpc # "unstarted"
        /\ price.known /\ price.value # 0
        /\ min_price <= price.value /\ price.value <= max_price)
         => waited' >= ALERT_DEBOUNCE]_vars

\* ------------------------------------------------------------------------
\* Properties of what a cycle does with its artifacts
\* ------------------------------------------------------------------------

\* C34 as claimed: an artifact returned by a capture is kept (appended to
\* images_data), and a ticker is passed over without analysis only when none
\* of its captures returned an artifact.
C34_ArtifactKeptAndAnalysed ==
    /\ [][cyc = "save" => images_data' = images_data + 1]_vars
    /\ [][(cyc = "collected" /\ cyc' \in {"ticker", "exit"}) => artifacts = 0]_vars

\* ------------------------------------------------------------------------
\* Properties of the voice tasks and of calls on a closed session
\* ------------------------------------------------------------------------

\* C37 as claimed: no two voice tasks alive are on
\* /tmp/margin_call_alert.mp3 at once, one writing it while the other
\* writes or plays it.
C37_VoiceTasksApartOnFile ==
    \A j, k \in 1..Len(voice) :
        (j # k /\ voice[j] = "write") => voice[k] \notin {"write", "play"}

\* C38 as claimed: an operation called on a session that is not open ends
\* with TradingViewScraperError at the top of the method, and a capture
\* called with an empty ticker or interval does not go on to its browser
\* calls.
C38_NotOpenOrEmptyRejected ==
    /\ (lastCall.op # "none" /\ ~lastCall.open)
          => lastCall.ended = "TradingViewScraperError"
    /\ (lastCall.op \in {"get_chart_image_url", "get_screenshot_link"}
          /\ lastCall.empty) => lastCall.ended # "proceeds"

====
